---- MODULE Spec2Model ----
(***************************************************************************)
(* The asynchronous flow-control module of quietwaters/utils               *)
(* (src/src/flowcontrol/index.js, lines 1-65) with the delay primitive it  *)
(* uses (src/src/time/index.js): defaultBackoff, isRetryableError,         *)
(* withTimeout and withRetry, run on an event loop with one-shot timers.   *)
(*                                                                         *)
(* One behaviour is one top-level call made by a caller: withRetry(fn,     *)
(* options) when mode = "retry", withTimeout(promiseOrFn, timeoutMs) when  *)
(* mode = "timeout".  The operation is the environment: the model draws    *)
(* its outcome and the time it takes when it is started.                   *)
(*                                                                         *)
(* Time is kept as the time left on every pending operation and timer.     *)
(* Tick moves to the next instant at which something is due.  Each action  *)
(* is one callback of the event loop together with the promise reactions   *)
(* (microtasks) it triggers, which run to completion before the next       *)
(* callback.                                                               *)
(***************************************************************************)
EXTENDS Integers, Sequences, FiniteSets, TLC

\* ------------------------------------------------------------- JS numbers
\* A JS number n (an integer here) is held as hi * Limb + lo with
\* 0 <= lo < Limb, because timeouts above 2^31 - 1 ms must be representable.
Limb == 2^30

FromInt(i) == [hi |-> i \div Limb, lo |-> i % Limb]

Zero == FromInt(0)

Less(a, b) == a.hi < b.hi \/ (a.hi = b.hi /\ a.lo < b.lo)

Leq(a, b) == ~Less(b, a)

\* Math.min and Math.max of two numbers.
MathMin(a, b) == IF Less(b, a) THEN b ELSE a

MathMax(a, b) == IF Less(a, b) THEN b ELSE a

\* a - b, for b <= a.
Minus(a, b) ==
  IF a.lo >= b.lo
    THEN [hi |-> a.hi - b.hi, lo |-> a.lo - b.lo]
    ELSE [hi |-> a.hi - b.hi - 1, lo |-> (a.lo - b.lo) + Limb]

\* ------------------------------------------------------------- bounds
\* maxRetries is drawn from -1 .. MaxRetriesBound (and unset).
MaxRetriesBound == 3

\* Short operation delays are drawn from 0 .. MaxSmallDelay ms.
MaxSmallDelay == 2

\* The operation is started at most MaxCalls times; withRetry itself never
\* needs more than MaxRetriesBound + 1.
MaxCalls == MaxRetriesBound + 2

\* The largest attempt index defaultBackoff is applied to directly.
MaxBackoffIndex == 8

\* ------------------------------------------------------------- constants
\* flowcontrol/index.js:4-5
BackoffBase == 2000

BackoffCeiling == 8000

\* flowcontrol/index.js:25, the largest delay setTimeout accepts.
MaxTimeoutMs == 2147483647

\* time/index.js:4
MaxSleepMs == 2147483647

\* Number.MAX_SAFE_INTEGER = 2^53 - 1
MaxSafeInteger == [hi |-> 2^23 - 1, lo |-> Limb - 1]

\* ------------------------------------------------------------- values
\* Success values, by name; the last four are falsy in JS.
Values == {"ok", "0", "false", "null", "undefined"}

\* An error-like value.  present = FALSE is a thrown null.  status is a JS
\* number only when statusIsNum; id tags the invocation (or the guard call)
\* that produced the value, so that two failures of equal content differ.
Failure(present, statusIsNum, status, name, code, message, id) ==
  [present |-> present, statusIsNum |-> statusIsNum, status |-> status,
   name |-> name, code |-> code, message |-> message, id |-> id]

NoFailure == Failure(FALSE, FALSE, 0, "", "", "", 0)

\* The failures an operation may end with: a network timeout, a server
\* error, a client error, a plain Error and a thrown null.
OpFailures(id) ==
  { Failure(TRUE, FALSE, 0, "Error", "ETIMEDOUT", "temporary", id),
    Failure(TRUE, TRUE, 503, "Error", "", "unavailable", id),
    Failure(TRUE, TRUE, 404, "Error", "", "not found", id),
    Failure(TRUE, TRUE, 404, "Error", "ECONNRESET", "reset", id),
    Failure(TRUE, FALSE, 0, "Error", "", "permanent", id),
    Failure(FALSE, FALSE, 0, "", "", "", id) }

\* The outcome of a promise: fulfilled with val, or rejected with err.
Fulfilled(v) == [ok |-> TRUE, val |-> v, err |-> NoFailure]

Rejected(e) == [ok |-> FALSE, val |-> "", err |-> e]

NoOutcome == [ok |-> FALSE, val |-> "pending", err |-> NoFailure]

OpOutcomes(id) == { Fulfilled(v) : v \in Values } \cup { Rejected(e) : e \in OpFailures(id) }

\* What an operation takes to settle: a number of ms, or never.
After(n) == [never |-> FALSE, ms |-> n]

Never == [never |-> TRUE, ms |-> Zero]

SmallDelays == { After(FromInt(i)) : i \in 0..MaxSmallDelay }

\* Delays just below and just above the largest timer delay (2^31 - 2 and
\* 2^31 ms), for operations under withTimeout.
LongDelays == { After(FromInt(MaxTimeoutMs - 1)), After([hi |-> 2, lo |-> 0]) }

\* A started operation: it settles with out once its delay has passed.
StartedOp(d, out) == [state |-> "pending", left |-> d, out |-> out]

\* The JS values a caller may pass as timeoutMs: undefined, null, NaN,
\* Infinity, or a number.
JsUndefined == [t |-> "undefined", n |-> Zero]

JsNull == [t |-> "null", n |-> Zero]

JsNaN == [t |-> "NaN", n |-> Zero]

JsInfinity == [t |-> "Infinity", n |-> Zero]

JsNum(n) == [t |-> "number", n |-> n]

TimeoutChoices ==
  {JsUndefined, JsNull, JsNaN, JsInfinity}
    \cup { JsNum(FromInt(i)) : i \in -1..MaxSmallDelay }
    \cup { JsNum(FromInt(MaxTimeoutMs - 1)), JsNum(FromInt(MaxTimeoutMs)),
           JsNum([hi |-> 2, lo |-> 0]), JsNum(MaxSafeInteger) }

\* The JS values a caller may pass as errorMessage: undefined, null or a string.
MessageChoices ==
  { [t |-> "undefined", s |-> ""], [t |-> "null", s |-> ""],
    [t |-> "string", s |-> ""], [t |-> "string", s |-> "Custom timeout message"] }

\* ------------------------------------------------------------- pure functions
\* defaultBackoff(attempt): min(2000 * 2^attempt, 8000)
\* Mutant: the doubling is not capped.
defaultBackoff_NoCeiling(attempt) == BackoffBase * 2^attempt

\* defaultBackoff(attempt)
defaultBackoff(attempt) ==
  LET base == BackoffBase * 2^attempt
  IN  IF base < BackoffCeiling THEN base ELSE BackoffCeiling

\* Mutant: the guard against a missing error is left out.
NotAnError_Never(err) == FALSE

\* !err
NotAnError(err) == ~err.present

\* Mutant: every status from 400 up counts as retryable.
isRetryableError_From400(err) ==
  IF NotAnError(err) THEN FALSE
  ELSE IF err.statusIsNum /\ (err.status >= 400 /\ err.status < 600)
    THEN TRUE
  ELSE err.name = "AbortError" \/ err.code = "ECONNRESET" \/ err.code = "ETIMEDOUT"

\* Mutant: the code ETIMEDOUT is not among the retryable ones.
isRetryableError_NoTimedOut(err) ==
  IF NotAnError(err) THEN FALSE
  ELSE IF err.statusIsNum /\ (err.status = 429 \/ (err.status >= 500 /\ err.status < 600))
    THEN TRUE
  ELSE err.name = "AbortError" \/ err.code = "ECONNRESET"

\* isRetryableError(err)
isRetryableError(err) ==
  IF NotAnError(err) THEN FALSE
  ELSE IF err.statusIsNum /\ (err.status = 429 \/ (err.status >= 500 /\ err.status < 600))
    THEN TRUE
  ELSE err.name = "AbortError" \/ err.code = "ECONNRESET" \/ err.code = "ETIMEDOUT"

\* A call of isRetryableError(err) as the caller sees it: reading
\* err.status of null or undefined throws a TypeError, which the guard of
\* line 9 is there to prevent.
isRetryableErrorCall(err) ==
  IF ~NotAnError(err) /\ ~err.present
    THEN [done |-> TRUE, threw |-> TRUE, value |-> FALSE]
    ELSE [done |-> TRUE, threw |-> FALSE, value |-> isRetryableError(err)]

\* A call of defaultBackoff(attempt) as the caller sees it.
defaultBackoffCall(n) == [done |-> TRUE, threw |-> FALSE, value |-> defaultBackoff(n)]

\* !timeoutMs
Falsy(v) == v.t \in {"undefined", "null", "NaN"} \/ (v.t = "number" /\ v.n = Zero)

\* timeoutMs <= 0 (null converts to 0, undefined and NaN compare false)
LeqZero(v) == v.t = "null" \/ (v.t = "number" /\ Leq(v.n, Zero))

\* Mutant: only a falsy timeoutMs is taken as "no limit" (the <= 0 test lost).
NoLimit_FalsyOnly(timeoutMs) == Falsy(timeoutMs)

\* Mutant: the comparison of line 21 turned around (timeoutMs >= 0).
NoLimit_Flipped(timeoutMs) == Falsy(timeoutMs) \/ ~LeqZero(timeoutMs)

\* The test of line 21: no deadline is wanted.
NoLimit(timeoutMs) == Falsy(timeoutMs) \/ LeqZero(timeoutMs)

\* Mutant: Math.max written for Math.min.
ClampedTimeout_Max(timeoutMs) ==
  IF timeoutMs.t = "Infinity" THEN [hi |-> 2^23, lo |-> 0]
  ELSE MathMax(timeoutMs.n, FromInt(MaxTimeoutMs))

\* Mutant: timeoutMs handed to setTimeout as it is (no clamp).
ClampedTimeout_None(timeoutMs) ==
  IF timeoutMs.t = "Infinity" THEN [hi |-> 2^23, lo |-> 0] ELSE timeoutMs.n

\* Line 25: Math.min(timeoutMs, 2147483647)
ClampedTimeout(timeoutMs) ==
  IF timeoutMs.t = "Infinity" THEN FromInt(MaxTimeoutMs)
  ELSE MathMin(timeoutMs.n, FromInt(MaxTimeoutMs))

\* Mutant: errorMessage ?? 'Operation timed out', which keeps an empty string.
TimeoutFailure_NullishOnly(errorMessage, id) ==
  Failure(TRUE, FALSE, 0, "Error", "ETIMEDOUT",
          IF errorMessage.t = "string" THEN errorMessage.s
          ELSE "Operation timed out", id)

\* Mutant: the error is made without its code.
TimeoutFailure_NoCode(errorMessage, id) ==
  Failure(TRUE, FALSE, 0, "Error", "",
          IF errorMessage.t = "string" /\ errorMessage.s # "" THEN errorMessage.s
          ELSE "Operation timed out", id)

\* Lines 30-31: new Error(errorMessage || 'Operation timed out') with code
\* ETIMEDOUT.
TimeoutFailure(errorMessage, id) ==
  Failure(TRUE, FALSE, 0, "Error", "ETIMEDOUT",
          IF errorMessage.t = "string" /\ errorMessage.s # "" THEN errorMessage.s
          ELSE "Operation timed out", id)

\* Mutant: sleep hands ms to setTimeout as it is.
SleepDelay_Unclamped(ms) == ms

\* sleep(ms): the delay handed to setTimeout, max(0, min(ms, 2147483647)).
SleepDelay(ms) == MathMax(Zero, MathMin(ms, FromInt(MaxSleepMs)))

\* ------------------------------------------------------------- state
VARIABLES
  mode,        \* which call the caller makes: "retry" or "timeout"
  ops,         \* the operations started so far, in order
  opDelay,     \* the time the latest operation takes, as drawn at its start
  options,     \* withRetry's options argument
  rpc,         \* withRetry: "idle", "awaitFn", "sleeping", "resolved", "rejected"
  attempt,     \* withRetry: let attempt
  lastError,   \* withRetry: let lastError
  sleepTimer,  \* the timer of the pending sleep()
  rresult,     \* the outcome withRetry's promise settled with
  fnArgs,      \* the argument of each fn(attempt) call, in order
  classified,  \* the id of each failure isRetryable was called with, in order
  backoffArgs, \* the argument of each backoff(attempt) call, in order
  timeoutMs,   \* withTimeout's timeoutMs argument
  errorMessage,\* withTimeout's errorMessage argument
  tpc,         \* withTimeout: "idle", "returned", "racing", "resolved", "rejected"
  timer,       \* withTimeout: let timer
  tresult,     \* the outcome withTimeout's promise settled with
  callee,      \* the function the running call is a call of
  other,       \* the locals of a second call, suspended at an await
  input,       \* the argument of a direct call of isRetryableError or defaultBackoff
  output       \* what that call gave: returned or threw, and the value

rvars == <<options, rpc, attempt, lastError, sleepTimer, rresult, fnArgs,
           classified, backoffArgs>>

tvars == <<timeoutMs, errorMessage, tpc, timer, tresult>>

pvars == <<input, output>>

cvars == <<callee, other>>

vars == <<mode, ops, opDelay, rvars, tvars, pvars, cvars>>

\* The running call is a call of withRetry (k = "retry") or of withTimeout
\* (k = "timeout"): the only call made, or one of two concurrent calls.
Runs(k) ==
  \/ mode = k
  \/ mode = "concurrent" /\ callee = k
  \/ mode = "callbacks" /\ k = "retry"
  \/ mode = "guardfn" /\ k = "timeout"
  \/ mode = "composed"

\* withRetry(() => withTimeout(op, t), options): every attempt is a call of
\* withTimeout.
Composed == mode = "composed"

\* typeof promiseOrFn === 'function'
FunctionGiven == mode = "guardfn"

\* What the operations of two concurrent calls do.
ConcurrentOutcomes(id) ==
  { Fulfilled("ok"),
    Rejected(Failure(TRUE, TRUE, 503, "Error", "", "unavailable", id)),
    Rejected(Failure(TRUE, FALSE, 0, "Error", "", "permanent", id)) }

ConcurrentDelays == { After(FromInt(0)), After(FromInt(1)), After(FromInt(2)) }

OutcomeChoices(id) ==
  IF mode \in {"concurrent", "callbacks", "guardfn", "composed"} THEN ConcurrentOutcomes(id) ELSE OpOutcomes(id)

\* What the operations under withRetry(() => withTimeout(op, 1)) take:
\* no time, 3 ms, or for ever.
ComposedDelays == { After(FromInt(0)), After(FromInt(3)), Never }

DelayChoices(alone) ==
  IF mode \in {"concurrent", "callbacks", "guardfn"} THEN ConcurrentDelays
  ELSE IF mode = "composed" THEN ComposedDelays
  ELSE alone

\* ------------------------------------------------------------- timers
\* A timer: "none" (never created), "pending", "fired", "cleared".
NoTimer == [state |-> "none", left |-> Zero]

\* setTimeout(callback, ms).  Node.js sets a delay below 1 or above
\* 2^31 - 1 to 1 (the comment of lines 23-24).
SetTimeout(ms) ==
  [state |-> "pending",
   left |-> IF Less(ms, FromInt(1)) \/ Less(FromInt(MaxTimeoutMs), ms)
              THEN FromInt(1) ELSE ms]

\* Mutant: the timer is not cleared.
ClearTimeout_Noop(tm) == tm

\* clearTimeout(timer)
ClearTimeout(tm) == IF tm.state = "pending" THEN [tm EXCEPT !.state = "cleared"] ELSE tm

Due(tm) == tm.state = "pending" /\ tm.left = Zero

\* ------------------------------------------------------------- withRetry
\* The options a caller may pass.  maxRetries <<>> is "not given".
MaxRetriesChoices == {<<>>} \cup { <<n>> : n \in -1..MaxRetriesBound }

ClassifierChoices == {"default", "always", "never"}

BackoffChoices == {"default", "zero"}

\* Mutant: maxRetries defaults to 1.
MaxRetriesOf_DefaultOne(o) == IF o.maxRetries = <<>> THEN 1 ELSE o.maxRetries[1]

\* { maxRetries = 0, isRetryable = isRetryableError, backoff = defaultBackoff }
MaxRetriesOf(o) == IF o.maxRetries = <<>> THEN 0 ELSE o.maxRetries[1]

IsRetryableOf(o, err) ==
  CASE o.isRetryable = "default" -> isRetryableError(err)
    [] o.isRetryable = "always" -> TRUE
    [] o.isRetryable = "never" -> FALSE
    [] o.isRetryable = "throws" -> FALSE  \* no verdict: see ClassifierThrows

BackoffOf(o, a) ==
  CASE o.backoff = "default" -> FromInt(defaultBackoff(a))
    [] o.backoff = "zero" -> Zero
    [] o.backoff = "negative" -> FromInt(-1)
    [] o.backoff = "oversized" -> [hi |-> 2, lo |-> 0]

\* The options of a caller whose isRetryable or backoff throws, or whose
\* backoff returns -1 or 2^31.
CallbackOptions ==
  { [maxRetries |-> <<n>>, isRetryable |-> cb[1], backoff |-> cb[2]] :
      n \in 0..2,
      cb \in { <<"throws", "zero">>, <<"always", "throws">>,
               <<"always", "negative">>, <<"always", "oversized">> } }

\* The error a throwing callback throws.
ThrownBy(who) == Failure(TRUE, FALSE, 0, "TypeError", "", who, 0)

\* Mutant: what a callback throws is caught and the attempt's failure kept.
Escapes_Handled(thrown, error) == error

\* An exception thrown inside the catch block (lines 48-55) is not caught
\* by it: it leaves withRetry in place of the failure being handled.
Escapes(thrown, error) == thrown

\* Lines 21-33: without a limit the promise is returned as it is; with
\* one the timer is set and the race begins.
GuardArm ==
  IF NoLimit(timeoutMs)
    THEN /\ tpc' = "returned"
         /\ UNCHANGED timer
    ELSE /\ tpc' = "racing"
         /\ timer' = SetTimeout(ClampedTimeout(timeoutMs))

\* fn(attempt): the operation is started; the environment fixes how it will
\* end and when.  With fn = () => withTimeout(op, t) the call of fn is a
\* new call of withTimeout on the operation it starts.
InvokeFn(a) ==
  /\ Len(ops) < MaxCalls
  /\ \E out \in OutcomeChoices(Len(ops) + 1), d \in DelayChoices(SmallDelays \cup {Never}) :
       /\ ops' = Append(ops, StartedOp(d, out))
       /\ opDelay' = d
  /\ fnArgs' = Append(fnArgs, a)
  /\ IF Composed
       THEN /\ GuardArm
            /\ tresult' = NoOutcome
            /\ UNCHANGED <<timeoutMs, errorMessage>>
       ELSE UNCHANGED tvars

\* Mutant: the attempt count is not looked at.
GivesUp_NoLimit(error) == ~IsRetryableOf(options, error)

\* Mutant: attempt > maxRetries, one retry too many.
GivesUp_OffByOne(error) ==
  attempt > MaxRetriesOf(options) \/ ~IsRetryableOf(options, error)

\* Mutant: the classifier is not consulted.
GivesUp_CountOnly(error) == attempt >= MaxRetriesOf(options)

\* The condition of line 50, attempt >= maxRetries || !isRetryable(error).
GivesUp(error) ==
  attempt >= MaxRetriesOf(options) \/ ~IsRetryableOf(options, error)

\* Mutant: isRetryable is called before the count is looked at.
ClassifierCalled_Always == TRUE

\* Line 50, a || b: isRetryable(error) is evaluated only if
\* attempt >= maxRetries is false.
ClassifierCalled == attempt < MaxRetriesOf(options)

\* isRetryable(error) is called (line 50) and throws.
ClassifierThrows == ClassifierCalled /\ options.isRetryable = "throws"

\* backoff(attempt) (line 53) throws.
BackoffThrows == options.backoff = "throws"

\* Mutant: backoff is called with the index of the attempt to come.
BackoffArg_Next == attempt + 1

\* Line 53: backoff(attempt), before attempt += 1.
BackoffArg == attempt

\* Mutant: the counter goes up by two.
NextAttempt_Double == attempt + 2

\* Line 54: attempt += 1.
NextAttempt == attempt + 1

\* Mutant: only the first failure is remembered.
Remembered_First(error) == IF lastError = NoFailure THEN error ELSE lastError

\* Line 49: the failure withRetry remembers, and throws at line 57.
Remembered(error) == error

\* Mutant: the sleep is not awaited.
SleepElapsed_NotAwaited == sleepTimer.state = "pending"

\* Line 53: await sleep(...) resumes once the sleep timer has fired.
SleepElapsed == Due(sleepTimer)

\* withRetry(fn, options) is called: lines 43-47 up to the first await.
CallWithRetry ==
  /\ Runs("retry")
  /\ rpc = "idle"
  /\ attempt' = 0
  /\ InvokeFn(0)
  /\ rpc' = "awaitFn"
  /\ UNCHANGED <<mode, options, lastError, sleepTimer, rresult, classified, backoffArgs>>
  /\ UNCHANGED pvars
  /\ UNCHANGED cvars

\* Mutant: return (await fn(attempt)) || undefined.
RetryReturn_DropsFalsy(out) ==
  /\ rpc' = "resolved"
  /\ rresult' = IF out.val = "ok" THEN out ELSE Fulfilled("undefined")
  /\ UNCHANGED <<options, attempt, lastError, sleepTimer, fnArgs, classified, backoffArgs>>

\* The awaited promise fulfilled: line 47 returns its value.
RetryReturn(out) ==
  /\ rpc' = "resolved"
  /\ rresult' = out
  /\ UNCHANGED <<options, attempt, lastError, sleepTimer, fnArgs, classified, backoffArgs>>

\* The awaited promise rejected: the catch block, lines 48-55, then line 57.
RetryCatch(error) ==
  /\ lastError' = Remembered(error)
  /\ classified' = IF ClassifierCalled THEN Append(classified, error.id)
                   ELSE classified
  /\ IF ClassifierThrows
       THEN /\ rpc' = "rejected"
            /\ rresult' = Rejected(Escapes(ThrownBy("isRetryable"), error))
            /\ UNCHANGED <<sleepTimer, backoffArgs>>
       ELSE IF GivesUp(error)
       THEN /\ rpc' = "rejected"
            /\ rresult' = Rejected(lastError')
            /\ UNCHANGED <<sleepTimer, backoffArgs>>
       ELSE IF BackoffThrows
       THEN /\ rpc' = "rejected"
            /\ rresult' = Rejected(Escapes(ThrownBy("backoff"), error))
            /\ backoffArgs' = Append(backoffArgs, BackoffArg)
            /\ UNCHANGED sleepTimer
       ELSE /\ rpc' = "sleeping"
            /\ backoffArgs' = Append(backoffArgs, BackoffArg)
            /\ sleepTimer' = SetTimeout(SleepDelay(BackoffOf(options, BackoffArg)))
            /\ UNCHANGED rresult
  /\ UNCHANGED <<options, attempt, fnArgs>>

\* The sleep timer fires: line 54, and the loop calls fn again (line 47).
SleepDone ==
  /\ rpc = "sleeping"
  /\ SleepElapsed
  /\ sleepTimer' = [sleepTimer EXCEPT !.state = "fired"]
  /\ attempt' = NextAttempt
  /\ InvokeFn(NextAttempt)
  /\ rpc' = "awaitFn"
  /\ UNCHANGED <<mode, options, lastError, rresult, classified, backoffArgs>>
  /\ UNCHANGED pvars
  /\ UNCHANGED cvars

\* ------------------------------------------------------------- withTimeout
\* withTimeout(promiseOrFn, timeoutMs, errorMessage) is called: lines 20-36
\* up to the await.  The operation is running from line 20 on.
CallWithTimeout ==
  /\ Runs("timeout")
  /\ ~FunctionGiven
  /\ ~Composed
  /\ tpc = "idle"
  /\ \E out \in OutcomeChoices(1),
        d \in DelayChoices(SmallDelays \cup LongDelays \cup {Never}) :
       /\ ops' = Append(ops, StartedOp(d, out))
       /\ opDelay' = d
  /\ GuardArm
  /\ UNCHANGED <<mode, timeoutMs, errorMessage, tresult>>
  /\ UNCHANGED rvars
  /\ UNCHANGED pvars
  /\ UNCHANGED cvars

\* promiseOrFn() is called with no argument.
NoArgs == <<>>

\* Mutant: the timer is made before promiseOrFn is called, and left.
FnThrew_TimerLeft ==
  /\ tpc' = "rejected"
  /\ tresult' = Rejected(ThrownBy("promiseOrFn"))
  /\ timer' = IF NoLimit(timeoutMs) THEN timer ELSE SetTimeout(ClampedTimeout(timeoutMs))
  /\ UNCHANGED <<ops, opDelay>>

\* promiseOrFn() throws (line 20): the async function rejects with what
\* was thrown, and lines 21-39 are not reached.
FnThrew ==
  /\ tpc' = "rejected"
  /\ tresult' = Rejected(ThrownBy("promiseOrFn"))
  /\ UNCHANGED <<timer, ops, opDelay>>

\* withTimeout(fn, timeoutMs, errorMessage) is called with a function:
\* line 20 calls it, and with the promise it returns the call goes on as
\* with a promise given.
CallWithTimeoutFn ==
  /\ Runs("timeout")
  /\ FunctionGiven
  /\ tpc = "idle"
  /\ fnArgs' = Append(fnArgs, NoArgs)
  /\ \/ FnThrew
     \/ /\ \E out \in OutcomeChoices(1),
              d \in DelayChoices(SmallDelays \cup LongDelays \cup {Never}) :
             /\ ops' = Append(ops, StartedOp(d, out))
             /\ opDelay' = d
        /\ GuardArm
        /\ UNCHANGED tresult
  /\ UNCHANGED <<mode, timeoutMs, errorMessage>>
  /\ UNCHANGED <<options, rpc, attempt, lastError, sleepTimer, rresult, classified,
                 backoffArgs>>
  /\ UNCHANGED pvars
  /\ UNCHANGED cvars

\* Mutant: a settled race is settled again by the loser.
RaceUndecided_Always == TRUE

\* Line 36: the race is settled by the first of the two promises to
\* settle, once; while withTimeout waits, tpc is "returned" or "racing".
RaceUndecided == tpc \in {"returned", "racing"}

\* Mutant: the operation's failure is turned into a timeout failure.
GuardSettle_Wraps(out) ==
  /\ tresult' = IF out.ok THEN out ELSE Rejected([out.err EXCEPT !.code = "ETIMEDOUT"])
  /\ tpc' = IF out.ok THEN "resolved" ELSE "rejected"
  /\ timer' = IF tpc = "racing" THEN ClearTimeout(timer) ELSE timer
  /\ UNCHANGED <<timeoutMs, errorMessage>>

\* Mutant: the operation's failure is caught and dropped.
GuardSettle_Swallows(out) ==
  /\ tresult' = IF out.ok THEN out ELSE Fulfilled("undefined")
  /\ tpc' = "resolved"
  /\ timer' = IF tpc = "racing" THEN ClearTimeout(timer) ELSE timer
  /\ UNCHANGED <<timeoutMs, errorMessage>>

\* The operation's promise settled while withTimeout follows it: the
\* returned promise of line 21 adopts the outcome, or the race of line 36
\* settles with it and the finally block clears the timer (line 38).
GuardSettle(out) ==
  /\ tresult' = out
  /\ tpc' = IF out.ok THEN "resolved" ELSE "rejected"
  /\ timer' = IF tpc = "racing" THEN ClearTimeout(timer) ELSE timer
  /\ UNCHANGED <<timeoutMs, errorMessage>>

\* The deadline timer fires: lines 30-32 reject the race, the await of
\* line 36 throws and the finally block runs.  A timer left pending by a
\* call that has settled rejects a promise nobody awaits.
DeadlineFire ==
  /\ Due(timer)
  /\ IF tpc = "racing"
       THEN /\ tresult' = Rejected(TimeoutFailure(errorMessage, Len(ops)))
            /\ tpc' = "rejected"
            /\ timer' = ClearTimeout([timer EXCEPT !.state = "fired"])
       ELSE /\ timer' = [timer EXCEPT !.state = "fired"]
            /\ UNCHANGED <<tresult, tpc>>
  /\ IF Composed /\ tpc = "racing"
       THEN RetryCatch(TimeoutFailure(errorMessage, Len(ops)))
       ELSE UNCHANGED rvars
  /\ UNCHANGED <<mode, ops, opDelay, timeoutMs, errorMessage>>
  /\ UNCHANGED pvars
  /\ UNCHANGED cvars

\* ------------------------------------------------------------- the operation
\* Operation i settles.  withRetry awaits the latest one only; withTimeout
\* follows its operation until the call has settled, after which the
\* outcome is dropped.
OpSettle(i) ==
  /\ ops[i].state = "pending"
  /\ ~ops[i].left.never
  /\ ops[i].left.ms = Zero
  /\ ops' = [ops EXCEPT ![i].state = "settled"]
  /\ IF Runs("retry") /\ rpc = "awaitFn" /\ i = Len(ops)
       THEN IF ops[i].out.ok THEN RetryReturn(ops[i].out) ELSE RetryCatch(ops[i].out.err)
       ELSE UNCHANGED rvars
  /\ IF Runs("timeout") /\ RaceUndecided /\ i = Len(ops)
       THEN GuardSettle(ops[i].out)
       ELSE UNCHANGED tvars
  /\ UNCHANGED <<mode, opDelay>>
  /\ UNCHANGED pvars
  /\ UNCHANGED cvars

\* ------------------------------------------------------------- time
\* The time left on everything pending that will happen.
PendingIn(o, st, tm) ==
  { o[i].left.ms : i \in { j \in 1..Len(o) : o[j].state = "pending" /\ ~o[j].left.never } }
    \cup (IF st.state = "pending" THEN {st.left} ELSE {})
    \cup (IF tm.state = "pending" THEN {tm.left} ELSE {})

Pending ==
  PendingIn(ops, sleepTimer, timer) \cup PendingIn(other.ops, other.sleepTimer, other.timer)

\* The operations o and the timer tm after step ms more.
OpsAfter(o, step) ==
  [i \in 1..Len(o) |->
     IF o[i].state = "pending" /\ ~o[i].left.never
       THEN [o[i] EXCEPT !.left.ms = Minus(@, step)]
       ELSE o[i]]

TimerAfter(tm, step) ==
  IF tm.state = "pending" THEN [tm EXCEPT !.left = Minus(@, step)] ELSE tm

\* Time passes up to the next instant at which something is due.
Tick ==
  /\ Pending # {}
  /\ Zero \notin Pending
  /\ LET step == CHOOSE m \in Pending : \A n \in Pending : Leq(m, n)
     IN  /\ ops' = OpsAfter(ops, step)
         /\ sleepTimer' = TimerAfter(sleepTimer, step)
         /\ timer' = TimerAfter(timer, step)
         /\ other' = [other EXCEPT !.ops = OpsAfter(@, step),
                                   !.sleepTimer = TimerAfter(@, step),
                                   !.timer = TimerAfter(@, step)]
  /\ UNCHANGED <<mode, opDelay, options, rpc, attempt, lastError, rresult, fnArgs,
                 classified, backoffArgs>>
  /\ UNCHANGED <<timeoutMs, errorMessage, tpc, tresult>>
  /\ UNCHANGED pvars
  /\ UNCHANGED callee

\* ------------------------------------------------------------- specification
\* The errors isRetryableError is called with: null or undefined, and
\* objects with a status (absent, a number, or a string of digits), a name
\* and a code.
StatusChoices == {0, 399, 400, 404, 428, 429, 430, 499, 500, 503, 599, 600}

NameChoices == {"", "Error", "AbortError"}

CodeChoices == {"", "ECONNRESET", "ETIMEDOUT", "ENOTFOUND"}

ErrorChoices ==
  {NoFailure} \cup
  { Failure(TRUE, isNum, st, nm, cd, "", 0) :
      isNum \in BOOLEAN, st \in StatusChoices, nm \in NameChoices, cd \in CodeChoices }

\* The attempt indices defaultBackoff is called with.
AttemptChoices == 0..MaxBackoffIndex

NotCalled == [done |-> FALSE, threw |-> FALSE, value |-> FALSE]

\* isRetryableError(input), called directly
ApplyIsRetryable ==
  /\ mode = "classify" /\ ~output.done
  /\ output' = isRetryableErrorCall(input)
  /\ UNCHANGED <<mode, ops, opDelay, rvars, tvars, input, cvars>>

\* defaultBackoff(input), called directly
ApplyDefaultBackoff ==
  /\ mode = "backoff" /\ ~output.done
  /\ output' = defaultBackoffCall(input)
  /\ UNCHANGED <<mode, ops, opDelay, rvars, tvars, input, cvars>>

\* The timeouts withTimeout is called with when given a function: none,
\* 0, 1 and 2 ms.
FnTimeoutChoices == {JsUndefined} \cup { JsNum(FromInt(i)) : i \in 0..2 }

\* The options of withRetry(() => withTimeout(op, 1), {maxRetries: n}),
\* with the default backoff or none.
ComposedOptions ==
  { [maxRetries |-> <<n>>, isRetryable |-> "default", backoff |-> b] :
      n \in 0..2, b \in BackoffChoices }

DefaultOptions == [maxRetries |-> <<>>, isRetryable |-> "default", backoff |-> "default"]

\* ------------------------------------------------------------- two calls
\* The locals of the running call (lines 20-27 and 43-44, with its
\* arguments), as they stand when it is suspended at an await.
Current ==
  [callee |-> callee, ops |-> ops, opDelay |-> opDelay, options |-> options,
   rpc |-> rpc, attempt |-> attempt, lastError |-> lastError,
   sleepTimer |-> sleepTimer, rresult |-> rresult, fnArgs |-> fnArgs,
   classified |-> classified, backoffArgs |-> backoffArgs,
   timeoutMs |-> timeoutMs, errorMessage |-> errorMessage, tpc |-> tpc,
   timer |-> timer, tresult |-> tresult]

\* A call of c that has not started.
NewCall(c, o, t) ==
  [callee |-> c, ops |-> <<>>, opDelay |-> Never, options |-> o,
   rpc |-> "idle", attempt |-> 0, lastError |-> NoFailure,
   sleepTimer |-> NoTimer, rresult |-> NoOutcome, fnArgs |-> <<>>,
   classified |-> <<>>, backoffArgs |-> <<>>,
   timeoutMs |-> t, errorMessage |-> [t |-> "undefined", s |-> ""], tpc |-> "idle",
   timer |-> NoTimer, tresult |-> NoOutcome]

NoCall == NewCall("none", DefaultOptions, JsUndefined)

\* The calls made concurrently: withRetry(fn, {maxRetries: 1}) with the
\* default or no backoff, and withTimeout(op, 1) or withTimeout(op).
ConcurrentCalls ==
  { NewCall("retry", [maxRetries |-> <<1>>, isRetryable |-> "default", backoff |-> b],
            JsUndefined) : b \in BackoffChoices }
    \cup { NewCall("timeout", DefaultOptions, t) : t \in {JsNum(FromInt(1)), JsUndefined} }

\* Mutant: attempt declared at module level, one counter for all calls.
ResumedAttempt_Shared(f) == attempt

\* let attempt, declared inside withRetry: each call has its own.
ResumedAttempt(f) == f.attempt

\* The event loop goes on with the other call: the running one stays
\* suspended at its await with its locals, the other resumes with its own.
Switch ==
  /\ mode = "concurrent"
  /\ other' = Current
  /\ callee' = other.callee
  /\ ops' = other.ops
  /\ opDelay' = other.opDelay
  /\ options' = other.options
  /\ rpc' = other.rpc
  /\ attempt' = ResumedAttempt(other)
  /\ lastError' = other.lastError
  /\ sleepTimer' = other.sleepTimer
  /\ rresult' = other.rresult
  /\ fnArgs' = other.fnArgs
  /\ classified' = other.classified
  /\ backoffArgs' = other.backoffArgs
  /\ timeoutMs' = other.timeoutMs
  /\ errorMessage' = other.errorMessage
  /\ tpc' = other.tpc
  /\ timer' = other.timer
  /\ tresult' = other.tresult
  /\ UNCHANGED <<mode, pvars>>

Init ==
  /\ mode \in {"retry", "timeout", "classify", "backoff", "concurrent", "callbacks",
               "guardfn", "composed"}
  /\ callee \in IF mode = "concurrent" THEN {"retry", "timeout"} ELSE {mode}
  /\ other \in IF mode = "concurrent" THEN ConcurrentCalls ELSE {NoCall}
  /\ ops = <<>>
  /\ opDelay = Never
  /\ IF mode = "retry"
       THEN /\ options \in [maxRetries : MaxRetriesChoices, isRetryable : ClassifierChoices,
                            backoff : BackoffChoices]
            /\ timeoutMs = JsUndefined
            /\ errorMessage = [t |-> "undefined", s |-> ""]
       ELSE IF mode = "timeout"
       THEN /\ options = DefaultOptions
            /\ timeoutMs \in TimeoutChoices
            /\ errorMessage \in MessageChoices
       ELSE IF mode = "composed"
       THEN /\ options \in ComposedOptions
            /\ timeoutMs = JsNum(FromInt(1))
            /\ errorMessage = [t |-> "undefined", s |-> ""]
       ELSE IF mode = "guardfn"
       THEN /\ options = DefaultOptions
            /\ timeoutMs \in FnTimeoutChoices
            /\ errorMessage = [t |-> "undefined", s |-> ""]
       ELSE IF mode = "callbacks"
       THEN /\ options \in CallbackOptions
            /\ timeoutMs = JsUndefined
            /\ errorMessage = [t |-> "undefined", s |-> ""]
       ELSE IF mode = "concurrent"
       THEN \E f \in ConcurrentCalls :
              /\ f.callee = callee
              /\ options = f.options
              /\ timeoutMs = f.timeoutMs
              /\ errorMessage = f.errorMessage
       ELSE /\ options = DefaultOptions
            /\ timeoutMs = JsUndefined
            /\ errorMessage = [t |-> "undefined", s |-> ""]
  /\ input \in IF mode = "classify" THEN ErrorChoices
               ELSE IF mode = "backoff" THEN AttemptChoices
               ELSE {NoFailure}
  /\ output = NotCalled
  /\ rpc = "idle"
  /\ attempt = 0
  /\ lastError = NoFailure
  /\ sleepTimer = NoTimer
  /\ rresult = NoOutcome
  /\ fnArgs = <<>>
  /\ classified = <<>>
  /\ backoffArgs = <<>>
  /\ tpc = "idle"
  /\ timer = NoTimer
  /\ tresult = NoOutcome

Next ==
  \/ CallWithRetry
  \/ CallWithTimeout
  \/ \E i \in 1..Len(ops) : OpSettle(i)
  \/ SleepDone
  \/ DeadlineFire
  \/ Tick
  \/ ApplyIsRetryable
  \/ ApplyDefaultBackoff
  \/ Switch
  \/ CallWithTimeoutFn

Spec == Init /\ [][Next]_vars

\* Every callback that is due is run by the event loop, and time passes.
FairSpec == Spec /\ WF_vars(Next)

\* ------------------------------------------------------------- properties
RetryDone == rpc \in {"resolved", "rejected"}

GuardDone == tpc \in {"resolved", "rejected"}

\* The operations that have failed so far.
FailedOps == { i \in 1..Len(ops) : ops[i].state = "settled" /\ ~ops[i].out.ok }

InFlight == { i \in 1..Len(ops) : ops[i].state = "pending" }

Smaller(a, b) == IF a < b THEN a ELSE b

\* timeoutMs is a positive number (Infinity included).
PositiveTimeout ==
  timeoutMs.t = "Infinity" \/ (timeoutMs.t = "number" /\ Less(Zero, timeoutMs.n))

\* timeoutMs is zero, negative, or undefined, null or NaN.
UnsetTimeout ==
  timeoutMs.t \in {"undefined", "null", "NaN"}
    \/ (timeoutMs.t = "number" /\ ~Less(Zero, timeoutMs.n))

\* d < timeoutMs, d = timeoutMs, as numbers.
BelowTimeout(d) ==
  timeoutMs.t = "Infinity" \/ (timeoutMs.t = "number" /\ Less(d, timeoutMs.n))

AtTimeout(d) == timeoutMs.t = "number" /\ d = timeoutMs.n

\* The call settled with the failure withTimeout makes on expiry.
TimedOut == tpc = "rejected" /\ ~tresult.ok /\ tresult.err.code = "ETIMEDOUT"
              /\ tresult.err # ops[1].out.err

\* C1: for maxRetries >= 0 withRetry never starts the operation more than
\* maxRetries + 1 times, whatever isRetryable answers, and when every
\* started attempt settles the call settles too.
C1_RetryTerminates ==
  /\ [](mode = "retry" /\ MaxRetriesOf(options) >= 0
          => Len(fnArgs) <= MaxRetriesOf(options) + 1)
  /\ <>(mode = "retry" => RetryDone \/ \E i \in 1..Len(ops) : ops[i].left.never)

C1_Witness ==
  /\ mode = "retry" /\ options.isRetryable = "always"
  /\ MaxRetriesOf(options) = MaxRetriesBound
  /\ rpc = "rejected" /\ Len(fnArgs) = MaxRetriesBound + 1

\* C2: with maxRetries 0, given or by default, the operation is started
\* exactly once, whatever its outcome and whatever the classifier answers.
C2_ZeroRetriesOnce ==
  mode = "retry" /\ options.maxRetries \in {<<>>, <<0>>} /\ rpc # "idle"
    => Len(fnArgs) = 1 /\ Len(ops) = 1

C2_Witness ==
  /\ mode = "retry" /\ options.maxRetries = <<>> /\ options.isRetryable = "always"
  /\ rpc = "rejected" /\ isRetryableError(lastError)

\* C3: when every failure of the operation is classified retryable and the
\* operation failed k times, a settled withRetry (maxRetries >= 0) has
\* started it exactly min(maxRetries, k) + 1 times, and if k <= maxRetries
\* it resolved with the value of the attempt that succeeded.
C3_CountAndValue ==
  mode = "retry" /\ RetryDone /\ MaxRetriesOf(options) >= 0
    /\ (\A i \in FailedOps : IsRetryableOf(options, ops[i].out.err))
    => LET k == Cardinality(FailedOps)
       IN  /\ Len(ops) = Smaller(MaxRetriesOf(options), k) + 1
           /\ k <= MaxRetriesOf(options)
                => /\ rpc = "resolved"
                   /\ ops[k + 1].out.ok
                   /\ rresult = ops[k + 1].out

\* Two failures with code ETIMEDOUT, then a value, under maxRetries 3.
C3_Witness ==
  /\ mode = "retry" /\ options.maxRetries = <<3>> /\ options.isRetryable = "default"
  /\ Len(ops) = 3 /\ FailedOps = {1, 2}
  /\ ops[1].out.err.code = "ETIMEDOUT" /\ ops[2].out.err.code = "ETIMEDOUT"
  /\ rpc = "resolved" /\ rresult = Fulfilled("ok")

\* C4: a rejected withRetry rejects with the failure of the last
\* invocation, as it was thrown, and with no earlier one.
C4_RejectsWithLast ==
  mode = "retry" /\ rpc = "rejected"
    => /\ ~ops[Len(ops)].out.ok
       /\ rresult = Rejected(ops[Len(ops)].out.err)
       /\ \A i \in 1..(Len(ops) - 1) : rresult.err # ops[i].out.err

C4_Witness ==
  /\ mode = "retry" /\ rpc = "rejected" /\ Len(ops) = 3
  /\ ops[1].out.err.code = "ETIMEDOUT"
  /\ rresult.err.status = 404 /\ rresult.err.id = 3

\* C5: once an attempt has failed with a failure the classifier in use
\* calls not retryable, that attempt is the last one, no sleep follows it
\* and the call is rejected with that failure, whatever maxRetries is.
C5_NonRetryableStops ==
  \A i \in FailedOps :
    mode = "retry" /\ ~IsRetryableOf(options, ops[i].out.err)
      => /\ i = Len(ops)
         /\ rpc = "rejected"
         /\ rresult = Rejected(ops[i].out.err)
         /\ Len(backoffArgs) = i - 1
         /\ sleepTimer.state # "pending"

C5_Witness ==
  /\ mode = "retry" /\ options.maxRetries = <<MaxRetriesBound>>
  /\ options.isRetryable = "default"
  /\ Len(ops) = 1 /\ rpc = "rejected"
  /\ rresult.err.message = "permanent"

\* C6: in one withRetry call at most one invocation is in flight, and a
\* further invocation starts only in a step where the one before has been
\* rejected and the sleep that followed it has run its time.
C6_Sequential ==
  /\ [](mode = "retry" => Cardinality(InFlight) <= 1)
  /\ [][mode = "retry" /\ Len(ops) >= 1 /\ Len(ops') > Len(ops)
          => /\ ops[Len(ops)].state = "settled" /\ ~ops[Len(ops)].out.ok
             /\ Len(backoffArgs) = Len(ops)
             /\ sleepTimer.state = "pending" /\ sleepTimer.left = Zero
             /\ sleepTimer'.state = "fired"]_vars

C6_Witness ==
  /\ mode = "retry" /\ Len(ops) = 2
  /\ ops[1].state = "settled" /\ ops[2].state = "pending"
  /\ Less(Zero, ops[2].left.ms) /\ ~ops[2].left.never

\* C7: with timeoutMs zero, negative, undefined, null or NaN withTimeout
\* makes no timer and settles exactly when and as the operation does.
C7_NoLimitPassThrough ==
  mode = "timeout" /\ UnsetTimeout /\ tpc # "idle"
    => /\ timer.state = "none"
       /\ IF ops[1].state = "settled"
            THEN GuardDone /\ tresult = ops[1].out
            ELSE tpc = "returned"

C7_Witness ==
  /\ mode = "timeout" /\ timeoutMs = JsNum(FromInt(-1))
  /\ opDelay = After([hi |-> 2, lo |-> 0])
  /\ tpc = "rejected" /\ tresult.err.code = "ETIMEDOUT" /\ tresult.err.id = 1
  /\ tresult = ops[1].out

\* C8 as claimed: for a positive timeoutMs and an operation that settles
\* after d < timeoutMs, the call settles with the operation's outcome.
C8_Claimed ==
  mode = "timeout" /\ PositiveTimeout /\ ~opDelay.never /\ BelowTimeout(opDelay.ms)
    /\ GuardDone
    => tresult = ops[1].out

\* C8: for a positive timeoutMs and an operation that settles after
\* d < min(timeoutMs, 2147483647), the call settles with the operation's
\* outcome, at the moment the operation settles, and never times out.
C8_FastOperationWins ==
  mode = "timeout" /\ PositiveTimeout /\ ~opDelay.never /\ BelowTimeout(opDelay.ms)
    /\ Less(opDelay.ms, FromInt(MaxTimeoutMs)) /\ tpc # "idle"
    => /\ timer.state # "fired"
       /\ IF ops[1].state = "settled"
            THEN GuardDone /\ tresult = ops[1].out
            ELSE tpc = "racing"

C8_Witness ==
  /\ mode = "timeout" /\ timeoutMs = JsNum(FromInt(2)) /\ opDelay = After(FromInt(1))
  /\ tpc = "resolved" /\ tresult = Fulfilled("0")

\* C9 as claimed: for a positive timeoutMs and an operation that settles
\* after d >= timeoutMs, d = timeoutMs included, the call is rejected with
\* code ETIMEDOUT.
C9_Claimed ==
  mode = "timeout" /\ PositiveTimeout /\ ~opDelay.never
    /\ (AtTimeout(opDelay.ms) \/ ~BelowTimeout(opDelay.ms)) /\ GuardDone
    => TimedOut

\* C9: for a positive timeoutMs and an operation that settles after
\* d > min(timeoutMs, 2147483647), the call is rejected with code
\* ETIMEDOUT, before the operation settles.
C9_SlowOperationTimesOut ==
  mode = "timeout" /\ PositiveTimeout /\ ~opDelay.never /\ tpc # "idle"
    /\ \/ ~BelowTimeout(opDelay.ms) /\ ~AtTimeout(opDelay.ms)
       \/ Less(FromInt(MaxTimeoutMs), opDelay.ms)
    => /\ GuardDone => TimedOut
       /\ ops[1].state = "settled" => GuardDone

C9_Witness ==
  /\ mode = "timeout" /\ timeoutMs = JsNum(FromInt(1)) /\ opDelay = After(FromInt(2))
  /\ ops[1].out = Fulfilled("ok") /\ ops[1].state = "settled"
  /\ TimedOut

\* C10: with a positive timeoutMs and an operation that never settles,
\* the call is in the end rejected with the timeout failure.
C10_NeverSettlingTimesOut ==
  (mode = "timeout" /\ PositiveTimeout /\ opDelay.never /\ tpc # "idle")
    ~> (TimedOut /\ timer.state = "fired")

C10_Witness ==
  /\ mode = "timeout" /\ timeoutMs = JsNum(MaxSafeInteger) /\ opDelay.never
  /\ TimedOut /\ tresult.err.message = "Operation timed out"

\* min(timeoutMs, 2147483647), for a positive timeoutMs.
MinWithLargest ==
  IF timeoutMs.t = "Infinity" \/ Less(FromInt(MaxTimeoutMs), timeoutMs.n)
    THEN FromInt(MaxTimeoutMs) ELSE timeoutMs.n

\* C11: the failure made on expiry has code ETIMEDOUT and carries the
\* caller's message when that is a non-empty string, and the message
\* 'Operation timed out' when it is undefined, null or empty.
C11_TimeoutFailureShape ==
  mode = "timeout" /\ timer.state = "fired"
    => /\ tpc = "rejected" /\ ~tresult.ok
       /\ tresult.err.code = "ETIMEDOUT"
       /\ tresult.err.message =
            IF errorMessage.t = "string" /\ errorMessage.s # ""
              THEN errorMessage.s ELSE "Operation timed out"

C11_Witness ==
  /\ mode = "timeout" /\ timer.state = "fired"
  /\ errorMessage = [t |-> "string", s |-> ""]
  /\ tresult.err.message = "Operation timed out"

\* C12: a settled withTimeout whose timer has not fired settled with the
\* operation's outcome, its failure being the very value the operation
\* failed with; the timeout failure is the outcome only if the timer fired.
C12_OriginalFailureKept ==
  mode = "timeout" /\ GuardDone
    => /\ timer.state # "fired"
            => ops[1].state = "settled" /\ tresult = ops[1].out
       /\ tresult # ops[1].out => timer.state = "fired"

C12_Witness ==
  /\ mode = "timeout" /\ timeoutMs = JsNum(FromInt(2)) /\ opDelay = After(FromInt(1))
  /\ tpc = "rejected" /\ timer.state = "cleared"
  /\ tresult.err.message = "permanent" /\ tresult = ops[1].out

\* C13: once withTimeout has settled its timer is not pending, on each
\* exit path (value, failure, expiry), and it does not fire afterwards.
C13_TimerReleased ==
  /\ [](mode = "timeout" /\ GuardDone => timer.state # "pending")
  /\ [][mode = "timeout" /\ GuardDone => timer' = timer]_vars

C13_Witness ==
  /\ mode = "timeout" /\ tpc = "rejected" /\ timer.state = "cleared"
  /\ ops[1].state = "settled" /\ ~ops[1].out.ok

\* C14 as claimed: the timer runs for min(timeoutMs, 2147483647) ms, and
\* with timeoutMs = Number.MAX_SAFE_INTEGER an operation that completes
\* yields its own outcome, not a timeout.
C14_Claimed ==
  /\ mode = "timeout" /\ tpc = "racing" /\ ops[1].state = "pending" /\ ~opDelay.never
       => Minus(MinWithLargest, timer.left) = Minus(opDelay.ms, ops[1].left.ms)
  /\ mode = "timeout" /\ timeoutMs = JsNum(MaxSafeInteger) /\ ~opDelay.never /\ GuardDone
       => tresult = ops[1].out

\* C14: for every positive timeoutMs the timer is set to
\* min(timeoutMs, 2147483647) ms, and with timeoutMs =
\* Number.MAX_SAFE_INTEGER an operation that completes in less than
\* 2147483647 ms yields its own outcome, not a timeout.
C14_DeadlineClamped ==
  /\ [][mode = "timeout" /\ PositiveTimeout /\ tpc = "idle" /\ tpc' # "idle"
          => /\ tpc' = "racing"
             /\ timer'.state = "pending"
             /\ timer'.left = MinWithLargest]_vars
  /\ [](mode = "timeout" /\ timeoutMs = JsNum(MaxSafeInteger) /\ ~opDelay.never
          /\ Less(opDelay.ms, FromInt(MaxTimeoutMs)) /\ GuardDone
          => tresult = ops[1].out)

C14_Witness ==
  /\ mode = "timeout" /\ timeoutMs = JsNum(MaxSafeInteger)
  /\ opDelay = After(FromInt(MaxTimeoutMs - 1))
  /\ tpc = "resolved" /\ tresult = Fulfilled("ok") /\ timer.state = "cleared"

\* C19: withRetry resolves only with the value of a last invocation that
\* succeeded and withTimeout only with the value the operation resolved
\* with; a failed last attempt, a failed operation and an expired deadline
\* each leave the call rejected.
C19_NoFailureSwallowed ==
  /\ mode = "retry" /\ rpc = "resolved"
       => ops[Len(ops)].state = "settled" /\ ops[Len(ops)].out.ok
            /\ rresult = ops[Len(ops)].out
  /\ mode = "retry" /\ Len(ops) >= 1 /\ Len(ops) \in FailedOps
       => \/ rpc = "rejected" /\ ~rresult.ok /\ rresult.err = ops[Len(ops)].out.err
          \/ rpc = "sleeping"
  /\ mode = "timeout" /\ tpc = "resolved"
       => ops[1].state = "settled" /\ ops[1].out.ok /\ tresult = ops[1].out
  /\ mode = "timeout" /\ tpc # "idle" /\ (1 \in FailedOps \/ timer.state = "fired")
       => tpc = "rejected" /\ ~tresult.ok

C19_Witness ==
  /\ mode = "retry" /\ options.maxRetries = <<1>> /\ options.isRetryable = "always"
  /\ Len(ops) = 2 /\ rpc = "rejected" /\ rresult.err.message = "permanent"

\* A status that is a number in 400..499 other than 429.
ClientError(err) ==
  err.present /\ err.statusIsNum /\ err.status >= 400 /\ err.status <= 499
    /\ err.status # 429

\* C15: isRetryableError returns true exactly for a present failure whose
\* status is the number 429 or a number in 500..599, or whose name is
\* AbortError, or whose code is ECONNRESET or ETIMEDOUT.
C15_RetryableExactly ==
  mode = "classify" /\ output.done
    => (output.value = TRUE
          <=> /\ input.present
              /\ \/ input.statusIsNum /\ input.status = 429
                 \/ input.statusIsNum /\ input.status \in 500..599
                 \/ input.name = "AbortError"
                 \/ input.code \in {"ECONNRESET", "ETIMEDOUT"})

C15_Witness ==
  /\ mode = "classify" /\ output.done /\ input.present
  /\ ~input.statusIsNum /\ input.status = 503
  /\ input.name = "Error" /\ input.code = ""
  /\ output.value = FALSE

\* C16 as claimed: for a failure whose status is a 4xx other than 429,
\* whatever its other fields, isRetryableError returns false and withRetry
\* with the default classifier does not invoke the operation again.
C16_Claimed ==
  /\ mode = "classify" /\ output.done /\ ClientError(input)
       => output.value = FALSE
  /\ mode = "retry" /\ options.isRetryable = "default"
       => \A i \in FailedOps : ClientError(ops[i].out.err) => i = Len(ops)

C18_BackoffValues ==
  mode = "backoff" /\ output.done
    => /\ output.value = CASE input = 0 -> 2000
                           [] input = 1 -> 4000
                           [] OTHER     -> 8000
       /\ output.value >= 2000 /\ output.value <= 8000
       /\ defaultBackoff(input + 1) >= output.value

C18_Witness ==
  mode = "backoff" /\ output.done /\ input = 3 /\ output.value = 8000

\* What holds of the locals f of a withRetry call that runs alone: the
\* counter is the number of retries made, the invocations are numbered
\* 0, 1, ... and every one but the last failed retryably, and the outcome
\* is that of the call's own last invocation.
RetryAsIfAlone(f) ==
  LET n == Len(f.ops)
  IN  /\ f.fnArgs = [i \in 1..n |-> i - 1]
      /\ f.attempt = IF n = 0 THEN 0 ELSE n - 1
      /\ n <= MaxRetriesOf(f.options) + 1
      /\ \A i \in 1..(n - 1) :
           /\ f.ops[i].state = "settled" /\ ~f.ops[i].out.ok
           /\ IsRetryableOf(f.options, f.ops[i].out.err)
      /\ f.rpc = "idle" <=> n = 0
      /\ f.rpc = "awaitFn" => f.ops[n].state = "pending"
      /\ f.rpc = "sleeping"
           => /\ f.ops[n].state = "settled" /\ ~f.ops[n].out.ok
              /\ f.lastError = f.ops[n].out.err
              /\ f.sleepTimer.state = "pending"
              /\ Leq(f.sleepTimer.left,
                     SetTimeout(SleepDelay(BackoffOf(f.options, f.attempt))).left)
      /\ f.rpc = "resolved"
           => f.ops[n].state = "settled" /\ f.ops[n].out.ok /\ f.rresult = f.ops[n].out
      /\ f.rpc = "rejected"
           => /\ f.ops[n].state = "settled" /\ ~f.ops[n].out.ok
              /\ f.rresult = Rejected(f.ops[n].out.err)
              /\ \/ n - 1 >= MaxRetriesOf(f.options)
                 \/ ~IsRetryableOf(f.options, f.ops[n].out.err)
      /\ f.tpc = "idle" /\ f.timer = NoTimer /\ f.tresult = NoOutcome

\* What holds of the locals f of a withTimeout call (with timeoutMs 1 or
\* none) that runs alone: one operation, a deadline timer that has run as
\* long as the operation has, and the operation's outcome or, after 1 ms,
\* the timeout failure.
GuardAsIfAlone(f) ==
  LET n == Len(f.ops)
      limited == f.timeoutMs = JsNum(FromInt(1))
  IN  /\ n <= 1
      /\ f.tpc = "idle" <=> n = 0
      /\ f.tpc = "idle" => f.timer = NoTimer
      /\ f.tpc = "returned" => ~limited /\ f.timer = NoTimer /\ f.ops[1].state = "pending"
      /\ f.tpc = "racing"
           => /\ limited /\ f.ops[1].state = "pending" /\ f.timer.state = "pending"
              /\ Minus(FromInt(1), f.timer.left) = Minus(f.opDelay.ms, f.ops[1].left.ms)
      /\ f.tpc \in {"resolved", "rejected"}
           => \/ /\ f.timer.state = (IF limited THEN "cleared" ELSE "none")
                 /\ f.ops[1].state = "settled"
                 /\ f.tresult = f.ops[1].out
                 /\ limited => Leq(f.opDelay.ms, FromInt(1))
              \/ /\ limited /\ f.timer.state = "fired"
                 /\ f.tresult = Rejected(TimeoutFailure(f.errorMessage, 1))
                 /\ Leq(FromInt(1), f.opDelay.ms)
      /\ f.rpc = "idle" /\ f.attempt = 0 /\ f.fnArgs = <<>>
      /\ f.sleepTimer = NoTimer /\ f.rresult = NoOutcome

\* C20: of two concurrent calls, under every interleaving, each has the
\* attempt counter, the invocations, the deadline timer and the outcome
\* it has when it runs alone (the first two conjuncts are the call alone).
C20_AsIfAlone ==
  /\ mode = "retry" /\ MaxRetriesOf(options) >= 0 => RetryAsIfAlone(Current)
  /\ mode = "timeout" /\ timeoutMs \in {JsNum(FromInt(1)), JsUndefined}
       /\ errorMessage.t = "undefined" /\ ~opDelay.never
       => GuardAsIfAlone(Current)
  /\ mode = "concurrent"
       => \A f \in {Current, other} :
            IF f.callee = "retry" THEN RetryAsIfAlone(f) ELSE GuardAsIfAlone(f)

C20_Witness ==
  /\ mode = "concurrent"
  /\ callee = "retry" /\ rpc = "resolved" /\ Len(ops) = 2 /\ attempt = 1
  /\ other.callee = "retry" /\ other.rpc = "rejected" /\ Len(other.ops) = 2
  /\ other.attempt = 1 /\ other.rresult.err.message = "unavailable"

\* The indices 0, 1, ..., n - 1 in order.
Indices(n) == [i \in 1..n |-> i - 1]

\* C22: a withTimeout call that has settled keeps its outcome whatever
\* the operation does afterwards; the timeout failure is the outcome only
\* if the operation was still pending when the timer fired, and the
\* operation's outcome only if the timer had not fired.
C22_SettlesOnce ==
  /\ [][mode = "timeout" /\ GuardDone => tresult' = tresult /\ tpc' = tpc]_vars
  /\ [][mode = "timeout" /\ ~GuardDone /\ GuardDone'
          => \/ /\ timer.state = "pending" /\ timer'.state = "fired"
                /\ ops[1].state = "pending" /\ ops'[1].state = "pending"
                /\ tresult'.err.code = "ETIMEDOUT" /\ tresult' # ops[1].out
             \/ /\ timer'.state # "fired"
                /\ ops[1].state = "pending" /\ ops'[1].state = "settled"
                /\ tresult' = ops[1].out]_vars

C22_Witness ==
  /\ mode = "timeout" /\ TimedOut /\ timer.state = "fired"
  /\ ops[1].state = "settled" /\ ops[1].out = Fulfilled("ok")

\* C23: the k-th invocation gets the index k - 1, and backoff is called
\* once between two invocations, with the index of the attempt that has
\* just failed, the counter being incremented only afterwards.
C23_IndicesInOrder ==
  /\ [](mode = "retry"
          => /\ fnArgs = Indices(Len(fnArgs))
             /\ backoffArgs = Indices(Len(backoffArgs))
             /\ Len(backoffArgs) = IF rpc = "sleeping" THEN Len(fnArgs)
                                   ELSE IF rpc = "idle" THEN 0
                                   ELSE Len(fnArgs) - 1)
  /\ [][mode = "retry" /\ backoffArgs' # backoffArgs
          => /\ backoffArgs' = Append(backoffArgs, attempt)
             /\ attempt' = attempt /\ fnArgs' = fnArgs]_vars

C23_Witness ==
  /\ mode = "retry" /\ fnArgs = <<0, 1, 2>> /\ backoffArgs = <<0, 1>>
  /\ rpc = "awaitFn" /\ attempt = 2

\* C24: withRetry resolves with the value of the first attempt that
\* succeeds, as it is, and once the call has settled no further call of
\* the operation, the classifier or the backoff function is made and the
\* outcome stays.
C24_SuccessTerminal ==
  /\ [](mode = "retry" /\ rpc = "resolved"
          => /\ rresult = ops[Len(ops)].out /\ rresult.ok
             /\ \A i \in 1..(Len(ops) - 1) : ~ops[i].out.ok)
  /\ [](mode = "retry" /\ Len(ops) >= 1 /\ ops[Len(ops)].state = "settled"
          /\ ops[Len(ops)].out.ok => rpc = "resolved")
  /\ [][mode = "retry" /\ RetryDone
          => /\ rpc' = rpc /\ rresult' = rresult
             /\ fnArgs' = fnArgs /\ classified' = classified
             /\ backoffArgs' = backoffArgs /\ Len(ops') = Len(ops)]_vars

C24_Witness ==
  /\ mode = "retry" /\ rpc = "resolved" /\ Len(ops) = 2
  /\ rresult = Fulfilled("0") /\ MaxRetriesOf(options) = MaxRetriesBound

\* C25: with maxRetries >= 0 the attempt counter stays within
\* 0..maxRetries; it starts at 0 and changes only by + 1, at the step at
\* which the backoff sleep ends and the next invocation is made.
C25_CounterBounds ==
  /\ [](mode = "retry" /\ MaxRetriesOf(options) >= 0
          => attempt >= 0 /\ attempt <= MaxRetriesOf(options))
  /\ [](mode = "retry" /\ rpc = "idle" => attempt = 0)
  /\ [][mode = "retry" /\ attempt' # attempt
          => /\ attempt' = attempt + 1
             /\ rpc = "sleeping" /\ sleepTimer.state = "pending"
             /\ sleepTimer.left = Zero /\ sleepTimer'.state = "fired"
             /\ fnArgs' = Append(fnArgs, attempt')]_vars

C25_Witness ==
  /\ mode = "retry" /\ MaxRetriesOf(options) = 2 /\ attempt = 2
  /\ rpc = "rejected" /\ sleepTimer.state = "fired"

\* C27: isRetryable is called for a failed attempt only if attempt <
\* maxRetries: not for the last permitted attempt, and not at all with
\* maxRetries 0 or negative, where the operation is invoked once.
C27_ClassifierOnlyWhileRetriesRemain ==
  mode = "retry"
    => /\ \A k \in 1..Len(classified) :
            classified[k] = k /\ k - 1 < MaxRetriesOf(options)
       /\ Len(classified) <= Cardinality(FailedOps)
       /\ MaxRetriesOf(options) <= 0 => classified = <<>> /\ Len(fnArgs) <= 1
       /\ \A i \in FailedOps :
            i - 1 < MaxRetriesOf(options) => Len(classified) >= i

C27_Witness ==
  /\ mode = "retry" /\ options.maxRetries = <<-1>> /\ options.isRetryable = "always"
  /\ rpc = "rejected" /\ classified = <<>> /\ Len(fnArgs) = 1

\* C28: when isRetryable or backoff throws while a failed attempt is
\* handled, withRetry rejects with what was thrown, not with the
\* operation's failure, and the operation is not invoked again.
C28_CallbackThrowEscapes ==
  mode = "callbacks" /\ FailedOps # {} /\ MaxRetriesOf(options) > 0
    => /\ options.isRetryable = "throws"
            => /\ rpc = "rejected" /\ Len(fnArgs) = 1
               /\ rresult = Rejected(ThrownBy("isRetryable"))
               /\ rresult.err # ops[1].out.err
               /\ classified = <<1>> /\ backoffArgs = <<>>
       /\ options.backoff = "throws"
            => /\ rpc = "rejected" /\ Len(fnArgs) = 1
               /\ rresult = Rejected(ThrownBy("backoff"))
               /\ rresult.err # ops[1].out.err
               /\ classified = <<1>> /\ backoffArgs = <<0>>

C28_Witness ==
  /\ mode = "callbacks" /\ options.backoff = "throws" /\ MaxRetriesOf(options) = 2
  /\ rpc = "rejected" /\ rresult.err.message = "backoff"
  /\ ops[1].out.err.message = "unavailable" /\ Len(ops) = 1

\* max(0, min(ms, 2147483647))
ClaimedWait(ms) ==
  IF Less(ms, Zero) THEN Zero
  ELSE IF Less(FromInt(MaxSleepMs), ms) THEN FromInt(MaxSleepMs)
  ELSE ms

\* C30: the sleep of withRetry waits max(0, min(ms, 2147483647)) ms, a
\* negative ms like 0 and an oversized one the maximum, and with a backoff
\* returning -1 or 2^31 the sleep ends and the next attempt follows.
C30_SleepAlwaysResolves ==
  /\ [][rpc # "sleeping" /\ rpc' = "sleeping" /\ mode \in {"retry", "callbacks"}
          => /\ sleepTimer'.state = "pending"
             /\ sleepTimer'.left =
                  SetTimeout(ClaimedWait(BackoffOf(options, attempt))).left
             /\ (options.backoff = "negative"
                   => sleepTimer'.left = SetTimeout(Zero).left)
             /\ (options.backoff = "oversized"
                   => sleepTimer'.left = FromInt(MaxSleepMs))]_vars
  /\ (mode = "callbacks" /\ rpc = "sleeping")
       ~> (rpc = "awaitFn" /\ sleepTimer.state = "fired")

C30_Witness ==
  /\ mode = "callbacks" /\ options.backoff = "oversized"
  /\ fnArgs = <<0, 1>> /\ sleepTimer.state = "fired" /\ rpc = "resolved"

\* C29: given a function, withTimeout calls it once, with a limit and
\* without; if the function throws, the call is rejected with what was
\* thrown and no timer is ever made.
C29_FunctionCalledOnce ==
  /\ [](mode = "guardfn"
          => /\ fnArgs = IF tpc = "idle" THEN <<>> ELSE <<NoArgs>>
             /\ Len(ops) <= 1
             /\ tpc # "idle" /\ ops = <<>>
                  => /\ tpc = "rejected" /\ timer = NoTimer
                     /\ tresult = Rejected(ThrownBy("promiseOrFn")))
  /\ [][mode = "guardfn" /\ tpc # "idle" /\ ops = <<>> => UNCHANGED vars]_vars

C29_Witness ==
  /\ mode = "guardfn" /\ timeoutMs = JsNum(FromInt(2)) /\ fnArgs = <<NoArgs>>
  /\ ops = <<>> /\ tpc = "rejected" /\ tresult.err.message = "promiseOrFn"
  /\ timer = NoTimer

\* C21 as claimed: under withRetry(() => withTimeout(op, t)) the operation
\* of an attempt is no longer executing when the operation of the next
\* attempt starts, also after a deadline expiry.
C21_Claimed ==
  mode = "composed" => \A i \in 1..(Len(ops) - 1) : ops[i].state = "settled"

\* No operation started so far completes.
NeverCompletes == \A i \in 1..Len(ops) : ops[i].left.never

\* C26: the timeout failure is retryable for the default classifier, and
\* withRetry(() => withTimeout(op, t), {maxRetries: n}) over an operation
\* that never completes ends rejected, after n + 1 attempts, with the
\* timeout failure of the last of them.
C26_TimeoutsRetriedToExhaustion ==
  /\ [](mode = "composed" /\ timer.state = "fired" /\ tpc = "rejected"
          => /\ tresult.err.code = "ETIMEDOUT"
             /\ isRetryableError(tresult.err)
             /\ lastError = tresult.err)
  /\ [](mode = "composed" /\ NeverCompletes /\ RetryDone
          => /\ Len(fnArgs) = MaxRetriesOf(options) + 1
             /\ rpc = "rejected"
             /\ rresult = Rejected(TimeoutFailure(errorMessage, Len(ops)))
             /\ rresult.err.code = "ETIMEDOUT"
             /\ rresult = tresult)
  /\ [](mode = "composed" /\ rpc # "idle" => <>(RetryDone \/ ~NeverCompletes))

C26_Witness ==
  /\ mode = "composed" /\ NeverCompletes /\ MaxRetriesOf(options) = 2
  /\ options.backoff = "default"
  /\ rpc = "rejected" /\ Len(fnArgs) = 3 /\ rresult.err.code = "ETIMEDOUT"
  /\ rresult.err.id = 3

====
